---- MODULE Spec2Model ----
(***************************************************************************)
(* State-machine model of RenderWebGL                                      *)
(* (src/packages/scratch-render/src/index.js) together with the Drawable   *)
(* collaborator it requires ('./drawable'), whose registry, identity and   *)
(* dirty-flag behaviour are modelled from spec.md sections 3, 4.2 and 4.3. *)
(***************************************************************************)
EXTENDS Integers, Sequences, FiniteSets, TLC

\* ------------------------------------------------------------------ bounds
\* Cap on the number of Drawables ever constructed (the id counter is
\* unbounded in the program).
MaxDrawables == 4

\* The same cap where every construction and page is explored.
MaxStageDrawables == 2

\* ------------------------------------------------------------ input domains
\* An optional argument is <<>> when the caller leaves it out (undefined in
\* JavaScript) and <<v>> when the caller supplies v.
Omitted == <<>>
Given(v) == <<v>>

\* Shader variants a Drawable can select (spec.md 4.3 getShader).
Shaders == {"X", "Y"}

\* The properties objects passed to updateDrawableProperties: each known key
\* is either left out or given a value.
PropertySets == {[shader |-> Omitted]} \cup {[shader |-> Given(s)] : s \in Shaders}

\* Stage rectangles <<xLeft, xRight, yBottom, yTop>> passed to setStageSize;
\* the last one is degenerate (zero width and height).
StageSizes == {<<-240, 240, -180, 180>>, <<0, 480, 0, 360>>, <<10, 10, 5, 5>>}

\* Pixel sizes <<pixelsWide, pixelsTall>> passed to resize.
PixelSizes == {<<480, 360>>, <<240, 180>>}

\* Background colours <<red, green, blue, alpha>> passed to
\* setBackgroundColor.
Colors == {<<1, 1, 1, 1>>, <<0, 0, 0, 1>>}

\* Values of window.devicePixelRatio: not reported, or 2.
PixelRatios == {Omitted, Given(2)}

\* CSS sizes <<width, height>> the page may give the canvas element; Omitted
\* when the page does not style it.
CssSizes == {Omitted, <<480, 360>>}

\* Constructor argument lists
\* <<xLeft, xRight, yBottom, yTop, pixelsWide, pixelsTall>>.
CtorArgs ==
    { <<Omitted, Omitted, Omitted, Omitted, Omitted, Omitted>>,
      <<Given(0), Given(480), Given(0), Given(360), Given(480), Given(360)>>,
      <<Given(-240), Given(240), Given(-180), Given(180), Given(0), Given(0)>>,
      <<Given(-100), Given(100), Given(-50), Given(50), Given(240), Given(180)>> }

\* ------------------------------------------------------------------- state
VARIABLES
    drawables,        \* this._drawables: the ordered draw list of ids
    allDrawables,     \* Drawable registry: id -> [dirty, shader]
    nextDrawable,     \* Drawable registry: next id to hand out
    xLeft, xRight, yBottom, yTop,   \* this._xLeft .. this._yTop
    projection,       \* this._projection
    backgroundColor,  \* this._backgroundColor
    canvasWidth, canvasHeight,      \* this._gl.canvas.width / .height
    cssSize,          \* size the page's style sheet gives the canvas, if any
    devicePixelRatio, \* window.devicePixelRatio
    glCalls,          \* GL calls issued by the most recent operation
    lastCall,         \* most recent operation: [op, arg, ret]
    threw,            \* whether the most recent operation raised a TypeError
    created,          \* history: ids returned by createDrawable, in order
    destroyed         \* history: ids for which destroyDrawable returned true

rendererVars == <<drawables, xLeft, xRight, yBottom, yTop, projection,
                  backgroundColor>>
registryVars == <<allDrawables, nextDrawable>>
surfaceVars  == <<canvasWidth, canvasHeight, cssSize, devicePixelRatio>>
stageVars    == <<xLeft, xRight, yBottom, yTop, projection>>
historyVars  == <<created, destroyed>>
vars == <<drawables, allDrawables, nextDrawable, xLeft, xRight, yBottom, yTop,
          projection, backgroundColor, canvasWidth, canvasHeight, cssSize,
          devicePixelRatio, glCalls, lastCall, threw, created, destroyed>>

\* ----------------------------------------------------------------- helpers
Range(s) == {s[i] : i \in 1..Len(s)}

Abs(n) == IF n < 0 THEN -n ELSE n

RECURSIVE Gcd(_, _)
Gcd(a, b) == IF b = 0 THEN a ELSE Gcd(b, a % b)

\* A JavaScript number n/d as a reduced fraction <<n, d>> with d > 0; a
\* division by zero gives a non-finite value, kept as <<1, 0>> (+Infinity),
\* <<-1, 0>> (-Infinity) or <<0, 0>> (NaN).
Frac(n, d) ==
    IF d = 0 THEN <<(IF n > 0 THEN 1 ELSE IF n < 0 THEN -1 ELSE 0), 0>>
    ELSE LET g == Gcd(Abs(n), Abs(d))
             s == IF d < 0 THEN -1 ELSE 1
         IN <<(s * n) \div g, (s * d) \div g>>

\* JavaScript's a || b on an optional number: b when a is undefined or 0.
OrElse(a, b) == IF a = Omitted \/ a[1] = 0 THEN b ELSE a[1]

\* twgl.m4.ortho(left, right, bottom, top, near, far): the non-constant
\* entries of the orthographic matrix (column-major indices 0, 5, 10, 12, 13,
\* 14).
ortho(left, right, bottom, top, near, far) ==
    [m0  |-> Frac(2, right - left),
     m5  |-> Frac(2, top - bottom),
     m10 |-> Frac(2, near - far),
     m12 |-> Frac(right + left, left - right),
     m13 |-> Frac(top + bottom, bottom - top),
     m14 |-> Frac(far + near, near - far)]

\* One logged GL call: the function called, the shader it is given ("-" when
\* it takes none) and its integer arguments (for a per-drawable call, the id
\* of the drawable it is issued for).
GlCall(op, shader, args) == [op |-> op, shader |-> shader, args |-> args]

\* The record of an API call: its name, its arguments (<<>> when it takes
\* none; the drawable id alone for updateDrawableProperties) and its return
\* value (<<>> when it returns nothing).
Call(op, arg, ret) == [op |-> op, arg |-> arg, ret |-> ret]

\* Array.prototype.indexOf: 0-based index of the first occurrence, or -1.
indexOf(s, x) ==
    IF \E i \in 1..Len(s) : s[i] = x
    THEN (CHOOSE i \in 1..Len(s) : s[i] = x /\ \A j \in 1..(i - 1) : s[j] # x) - 1
    ELSE -1

\* Array.prototype.splice(index, 1): removes the element at the 0-based
\* index; a negative index counts from the end of the array.
splice1(s, index) ==
    LET start == IF index < 0
                 THEN (IF Len(s) + index < 0 THEN 0 ELSE Len(s) + index)
                 ELSE (IF index > Len(s) THEN Len(s) ELSE index)
    IN [i \in 1..(IF start < Len(s) THEN Len(s) - 1 ELSE Len(s)) |->
            IF i <= start THEN s[i] ELSE s[i + 1]]

\* ------------------------------------------------- Drawable (./drawable)
\* new Drawable(renderer, gl): default state, no effects active.
NewDrawable(dirty) == [dirty |-> dirty, shader |-> "X"]

\* Drawable.getDrawableByID(id): <<drawable>>, or <<>> for undefined.
getDrawableByID(reg, id) == IF id \in DOMAIN reg THEN <<reg[id]>> ELSE <<>>

\* drawable.dispose(): the drawable leaves the registry.
dispose(reg, id) == [i \in DOMAIN reg \ {id} |-> reg[i]]

\* Drawable.dirtyAllTransforms(): every registered drawable becomes dirty.
dirtyAllTransforms(reg) == [i \in DOMAIN reg |-> [reg[i] EXCEPT !.dirty = TRUE]]

\* drawable.updateProperties(properties): merges the supplied known keys and
\* marks the drawable dirty.
updateProperties(d, properties) ==
    [dirty |-> TRUE,
     shader |-> IF properties.shader = Omitted THEN d.shader
                ELSE properties.shader[1]]

\* drawable.getShader(): the shader variant of the active effects.
getShader(d) == d.shader

\* drawable.getUniforms(): recomputes if dirty and leaves the drawable clean.
getUniforms(d) == [d EXCEPT !.dirty = FALSE]

\* ------------------------------------------------------------ RenderWebGL
\* The part of a state that the API calls of the renderer can change,
\* leaving the page's environment alone.
Environment == <<cssSize, devicePixelRatio>>

\* canvas.clientWidth / canvas.clientHeight: the styled size when the page
\* styles the canvas, else the size of its width and height attributes.
clientWidth == IF cssSize = Omitted THEN canvasWidth ELSE cssSize[1]
clientHeight == IF cssSize = Omitted THEN canvasHeight ELSE cssSize[2]

\* window.devicePixelRatio || 1
pixelRatio == OrElse(devicePixelRatio, 1)

\* setBackgroundColor(red, green, blue, alpha)
setBackgroundColor(color) ==
    /\ backgroundColor' = color
    /\ glCalls' = <<>>
    /\ lastCall' = Call("setBackgroundColor", color, <<>>)
    /\ threw' = FALSE
    /\ UNCHANGED <<drawables, registryVars, stageVars, surfaceVars, historyVars>>

\* Variant: stores the bounds and the projection without the dirty
\* broadcast.
setStageSize_noDirty(left, right, bottom, top) ==
    /\ xLeft' = left
    /\ xRight' = right
    /\ yBottom' = bottom
    /\ yTop' = top
    /\ projection' = ortho(left, right, bottom, top, -1, 1)
    /\ glCalls' = <<>>
    /\ lastCall' = Call("setStageSize", <<left, right, bottom, top>>, <<>>)
    /\ threw' = FALSE
    /\ UNCHANGED <<drawables, registryVars, backgroundColor, surfaceVars,
                   historyVars>>

\* Variant: stores the bounds but keeps the projection computed earlier.
setStageSize_staleProjection(left, right, bottom, top) ==
    /\ xLeft' = left
    /\ xRight' = right
    /\ yBottom' = bottom
    /\ yTop' = top
    /\ allDrawables' = dirtyAllTransforms(allDrawables)
    /\ glCalls' = <<>>
    /\ lastCall' = Call("setStageSize", <<left, right, bottom, top>>, <<>>)
    /\ threw' = FALSE
    /\ UNCHANGED <<drawables, nextDrawable, projection, backgroundColor,
                   surfaceVars, historyVars>>

\* setStageSize(xLeft, xRight, yBottom, yTop)
setStageSize(left, right, bottom, top) ==
    /\ xLeft' = left
    /\ xRight' = right
    /\ yBottom' = bottom
    /\ yTop' = top
    /\ projection' = ortho(left, right, bottom, top, -1, 1)
    /\ allDrawables' = dirtyAllTransforms(allDrawables)
    /\ glCalls' = <<>>
    /\ lastCall' = Call("setStageSize", <<left, right, bottom, top>>, <<>>)
    /\ threw' = FALSE
    /\ UNCHANGED <<drawables, nextDrawable, backgroundColor, surfaceVars,
                   historyVars>>

\* Variant: sets the canvas to the requested size without the pixel ratio.
resize_noRatio(pixelsWide, pixelsTall) ==
    /\ canvasWidth' = pixelsWide
    /\ canvasHeight' = pixelsTall
    /\ glCalls' = <<>>
    /\ lastCall' = Call("resize", <<pixelsWide, pixelsTall>>, <<>>)
    /\ threw' = FALSE
    /\ UNCHANGED <<drawables, registryVars, stageVars, backgroundColor,
                   Environment, historyVars>>

\* resize(pixelsWide, pixelsTall)
resize(pixelsWide, pixelsTall) ==
    /\ canvasWidth' = pixelsWide * pixelRatio
    /\ canvasHeight' = pixelsTall * pixelRatio
    /\ glCalls' = <<>>
    /\ lastCall' = Call("resize", <<pixelsWide, pixelsTall>>, <<>>)
    /\ threw' = FALSE
    /\ UNCHANGED <<drawables, registryVars, stageVars, backgroundColor,
                   Environment, historyVars>>

\* Variant: clears with the constructor's white instead of the stored
\* background colour.
framePrologue_white ==
    << GlCall("viewport", "-", <<0, 0, clientWidth, clientHeight>>),
       GlCall("clearColor", "-", <<1, 1, 1, 1>>),
       GlCall("clear", "-", <<>>),
       GlCall("enable", "-", <<>>),
       GlCall("blendFuncSeparate", "-", <<>>) >>

\* The calls draw() issues before it walks the draw list.
framePrologue ==
    << GlCall("viewport", "-", <<0, 0, clientWidth, clientHeight>>),
       GlCall("clearColor", "-", backgroundColor),
       GlCall("clear", "-", <<>>),
       GlCall("enable", "-", <<>>),
       GlCall("blendFuncSeparate", "-", <<>>) >>

\* Variant: rebinds for every drawable.
shaderChanged_always(currentShader, newShader) == TRUE

\* The test that decides a shader rebind: currentShader != newShader, where
\* currentShader is "null" before the first drawable.
shaderChanged(currentShader, newShader) == currentShader # newShader

\* Variant: applies each drawable's cached uniforms without going through
\* getUniforms, so that no drawable is recomputed.
RECURSIVE drawLoop_cachedUniforms(_, _, _, _, _)
drawLoop_cachedUniforms(list, i, currentShader, reg, calls) ==
    IF i > Len(list)
    THEN [calls |-> calls, reg |-> reg, threw |-> FALSE]
    ELSE LET drawableID == list[i]
             drawable == getDrawableByID(reg, drawableID)
         IN IF drawable = <<>>
            THEN [calls |-> calls, reg |-> reg, threw |-> TRUE]
            ELSE LET newShader == getShader(drawable[1])
                     bind == IF currentShader # newShader
                             THEN << GlCall("useProgram", newShader, <<>>),
                                     GlCall("setBuffersAndAttributes", newShader, <<>>) >>
                             ELSE <<>>
                     issue == << GlCall("setUniforms", newShader, <<drawableID>>),
                                 GlCall("setUniforms:u_fudge", newShader, <<>>),
                                 GlCall("drawBufferInfo", newShader, <<drawableID>>) >>
                 IN drawLoop_cachedUniforms(list, i + 1, newShader, reg,
                                            calls \o bind \o issue)

\* The body of draw()'s loop from index i (1-based) on, given the shader
\* bound so far, the registry and the calls issued so far. A listed id that
\* does not resolve makes drawable.getShader() raise a TypeError, which ends
\* draw() at that point.
RECURSIVE drawLoop(_, _, _, _, _)
drawLoop(list, i, currentShader, reg, calls) ==
    IF i > Len(list)
    THEN [calls |-> calls, reg |-> reg, threw |-> FALSE]
    ELSE LET drawableID == list[i]
             drawable == getDrawableByID(reg, drawableID)
         IN IF drawable = <<>>
            THEN [calls |-> calls, reg |-> reg, threw |-> TRUE]
            ELSE LET newShader == getShader(drawable[1])
                     bind == IF shaderChanged(currentShader, newShader)
                             THEN << GlCall("useProgram", newShader, <<>>),
                                     GlCall("setBuffersAndAttributes", newShader, <<>>) >>
                             ELSE <<>>
                     issue == << GlCall("setUniforms", newShader, <<drawableID>>),
                                 GlCall("setUniforms:u_fudge", newShader, <<>>),
                                 GlCall("drawBufferInfo", newShader, <<drawableID>>) >>
                 IN drawLoop(list, i + 1, newShader,
                             [reg EXCEPT ![drawableID] = getUniforms(drawable[1])],
                             calls \o bind \o issue)

\* The draw list grouped by shader variant (all "X" drawables, then all
\* "Y" drawables); used by the variant below only.
groupedByShader(list, reg) ==
    SelectSeq(list, LAMBDA id : id \in DOMAIN reg /\ reg[id].shader = "X")
    \o SelectSeq(list, LAMBDA id : ~(id \in DOMAIN reg /\ reg[id].shader = "X"))

\* Variant: draws the list grouped by shader instead of in list order.
draw_grouped ==
    LET frame == drawLoop(groupedByShader(drawables, allDrawables), 1, "null",
                          allDrawables, framePrologue)
    IN /\ glCalls' = frame.calls
       /\ allDrawables' = frame.reg
       /\ threw' = frame.threw
       /\ lastCall' = Call("draw", <<>>, <<>>)
       /\ UNCHANGED <<drawables, nextDrawable, stageVars, backgroundColor,
                      surfaceVars, historyVars>>

\* Variant: walks the draw list by taking its entries off, leaving it empty.
draw_consuming ==
    LET frame == drawLoop(drawables, 1, "null", allDrawables, framePrologue)
    IN /\ glCalls' = frame.calls
       /\ allDrawables' = frame.reg
       /\ threw' = frame.threw
       /\ lastCall' = Call("draw", <<>>, <<>>)
       /\ drawables' = <<>>
       /\ UNCHANGED <<nextDrawable, stageVars, backgroundColor, surfaceVars,
                      historyVars>>

\* draw()
draw ==
    LET frame == drawLoop(drawables, 1, "null", allDrawables, framePrologue)
    IN /\ glCalls' = frame.calls
       /\ allDrawables' = frame.reg
       /\ threw' = frame.threw
       /\ lastCall' = Call("draw", <<>>, <<>>)
       /\ UNCHANGED <<drawables, nextDrawable, stageVars, backgroundColor,
                      surfaceVars, historyVars>>

\* Variant: puts the new id at the front of the draw list.
createDrawable_unshift ==
    \E dirty \in BOOLEAN :
        LET drawableID == nextDrawable
        IN /\ nextDrawable' = nextDrawable + 1
           /\ allDrawables' = [i \in DOMAIN allDrawables \cup {drawableID} |->
                                  IF i = drawableID THEN NewDrawable(dirty)
                                  ELSE allDrawables[i]]
           /\ drawables' = <<drawableID>> \o drawables
           /\ created' = Append(created, drawableID)
           /\ glCalls' = <<>>
           /\ lastCall' = Call("createDrawable", <<>>, <<drawableID>>)
           /\ threw' = FALSE
           /\ UNCHANGED <<stageVars, backgroundColor, surfaceVars, destroyed>>

\* createDrawable(); the new Drawable takes the registry's next id. Whether a
\* new Drawable starts dirty is left open.
createDrawable ==
    \E dirty \in BOOLEAN :
        LET drawableID == nextDrawable
        IN /\ nextDrawable' = nextDrawable + 1
           /\ allDrawables' = [i \in DOMAIN allDrawables \cup {drawableID} |->
                                  IF i = drawableID THEN NewDrawable(dirty)
                                  ELSE allDrawables[i]]
           /\ drawables' = Append(drawables, drawableID)
           /\ created' = Append(created, drawableID)
           /\ glCalls' = <<>>
           /\ lastCall' = Call("createDrawable", <<>>, <<drawableID>>)
           /\ threw' = FALSE
           /\ UNCHANGED <<stageVars, backgroundColor, surfaceVars, destroyed>>

\* The common shape of destroyDrawable and its variants: found decides the
\* branch, doDispose and doSplice which of the two removals are carried out.
destroyWith(drawableID, index, found, doDispose, doSplice) ==
    /\ glCalls' = <<>>
    /\ UNCHANGED <<nextDrawable, stageVars, backgroundColor, surfaceVars, created>>
    /\ IF found
       THEN IF doDispose /\ getDrawableByID(allDrawables, drawableID) = <<>>
            THEN /\ threw' = TRUE
                 /\ lastCall' = Call("destroyDrawable", <<drawableID>>, <<>>)
                 /\ UNCHANGED <<drawables, allDrawables, destroyed>>
            ELSE /\ allDrawables' = IF doDispose
                                    THEN dispose(allDrawables, drawableID)
                                    ELSE allDrawables
                 /\ drawables' = IF doSplice THEN splice1(drawables, index)
                                 ELSE drawables
                 /\ threw' = FALSE
                 /\ lastCall' = Call("destroyDrawable", <<drawableID>>, <<TRUE>>)
                 /\ destroyed' = destroyed \cup {drawableID}
       ELSE /\ threw' = FALSE
            /\ lastCall' = Call("destroyDrawable", <<drawableID>>, <<FALSE>>)
            /\ UNCHANGED <<drawables, allDrawables, destroyed>>

\* Variant: disposes the drawable but leaves its id in the draw list.
destroyDrawable_noSplice(drawableID) ==
    LET index == indexOf(drawables, drawableID)
    IN destroyWith(drawableID, index, index >= 0, TRUE, FALSE)

\* Variant: removes the id from the draw list but does not dispose the
\* drawable.
destroyDrawable_noDispose(drawableID) ==
    LET index == indexOf(drawables, drawableID)
    IN destroyWith(drawableID, index, index >= 0, FALSE, TRUE)

\* Variant: tests index > 0, so the first listed id is never found.
destroyDrawable_offByOne(drawableID) ==
    LET index == indexOf(drawables, drawableID)
    IN destroyWith(drawableID, index, index > 0, TRUE, TRUE)

\* Variant: splices whatever indexOf returned, so that an unlisted id (index
\* -1) removes the last listed id, and reports whether the id was listed.
destroyDrawable_spliceAnyway(drawableID) ==
    LET index == indexOf(drawables, drawableID)
    IN /\ glCalls' = <<>>
       /\ UNCHANGED <<nextDrawable, stageVars, backgroundColor, surfaceVars,
                      created>>
       /\ allDrawables' = dispose(allDrawables, drawableID)
       /\ drawables' = splice1(drawables, index)
       /\ threw' = FALSE
       /\ lastCall' = Call("destroyDrawable", <<drawableID>>, <<index >= 0>>)
       /\ destroyed' = IF index >= 0 THEN destroyed \cup {drawableID}
                       ELSE destroyed

\* Variant: removes the id by moving the last listed id into its place.
destroyDrawable_swapRemove(drawableID) ==
    LET index == indexOf(drawables, drawableID)
        n == Len(drawables)
    IN /\ glCalls' = <<>>
       /\ UNCHANGED <<nextDrawable, stageVars, backgroundColor, surfaceVars,
                      created>>
       /\ IF index >= 0
          THEN /\ allDrawables' = dispose(allDrawables, drawableID)
               /\ drawables' = [i \in 1..(n - 1) |->
                                   IF i = index + 1 THEN drawables[n]
                                   ELSE drawables[i]]
               /\ threw' = FALSE
               /\ lastCall' = Call("destroyDrawable", <<drawableID>>, <<TRUE>>)
               /\ destroyed' = destroyed \cup {drawableID}
          ELSE /\ threw' = FALSE
               /\ lastCall' = Call("destroyDrawable", <<drawableID>>, <<FALSE>>)
               /\ UNCHANGED <<drawables, allDrawables, destroyed>>

\* destroyDrawable(drawableID)
destroyDrawable(drawableID) ==
    LET index == indexOf(drawables, drawableID)
    IN /\ glCalls' = <<>>
       /\ UNCHANGED <<nextDrawable, stageVars, backgroundColor, surfaceVars,
                      created>>
       /\ IF index >= 0
          THEN IF getDrawableByID(allDrawables, drawableID) = <<>>
               THEN \* undefined.dispose() raises a TypeError
                    /\ threw' = TRUE
                    /\ lastCall' = Call("destroyDrawable", <<drawableID>>, <<>>)
                    /\ UNCHANGED <<drawables, allDrawables, destroyed>>
               ELSE /\ allDrawables' = dispose(allDrawables, drawableID)
                    /\ drawables' = splice1(drawables, index)
                    /\ threw' = FALSE
                    /\ lastCall' = Call("destroyDrawable", <<drawableID>>, <<TRUE>>)
                    /\ destroyed' = destroyed \cup {drawableID}
          ELSE /\ threw' = FALSE
               /\ lastCall' = Call("destroyDrawable", <<drawableID>>, <<FALSE>>)
               /\ UNCHANGED <<drawables, allDrawables, destroyed>>

\* Variant: forwards to the drawable without testing that it was found, so
\* that an id that does not resolve raises a TypeError.
updateDrawableProperties_noCheck(drawableID, properties) ==
    LET drawable == getDrawableByID(allDrawables, drawableID)
    IN /\ allDrawables' =
            IF drawable # <<>>
            THEN [allDrawables EXCEPT
                    ![drawableID] = updateProperties(drawable[1], properties)]
            ELSE allDrawables
       /\ glCalls' = <<>>
       /\ lastCall' = Call("updateDrawableProperties", <<drawableID>>, <<>>)
       /\ threw' = (drawable = <<>>)
       /\ UNCHANGED <<drawables, nextDrawable, stageVars, backgroundColor,
                      surfaceVars, historyVars>>

\* updateDrawableProperties(drawableID, properties)
updateDrawableProperties(drawableID, properties) ==
    LET drawable == getDrawableByID(allDrawables, drawableID)
    IN /\ allDrawables' =
            IF drawable # <<>>
            THEN [allDrawables EXCEPT
                    ![drawableID] = updateProperties(drawable[1], properties)]
            ELSE allDrawables
       /\ glCalls' = <<>>
       /\ lastCall' = Call("updateDrawableProperties", <<drawableID>>, <<>>)
       /\ threw' = FALSE
       /\ UNCHANGED <<drawables, nextDrawable, stageVars, backgroundColor,
                      surfaceVars, historyVars>>

\* getProjectionMatrix()
getProjectionMatrix ==
    /\ glCalls' = <<>>
    /\ lastCall' = Call("getProjectionMatrix", <<>>, <<projection>>)
    /\ threw' = FALSE
    /\ UNCHANGED <<drawables, registryVars, stageVars, backgroundColor,
                   surfaceVars, historyVars>>

\* new RenderWebGL(canvas, xLeft, xRight, yBottom, yTop, pixelsWide,
\* pixelsTall): the state once the constructor has returned.
RenderWebGL(args, ratio, css) ==
    LET left == OrElse(args[1], -240)
        right == OrElse(args[2], 240)
        bottom == OrElse(args[3], -180)
        top == OrElse(args[4], 180)
        wide == OrElse(args[5], Abs(right - left))
        tall == OrElse(args[6], Abs(top - bottom))
    IN /\ drawables = <<>>
       /\ backgroundColor = <<1, 1, 1, 1>>
       /\ xLeft = left
       /\ xRight = right
       /\ yBottom = bottom
       /\ yTop = top
       /\ projection = ortho(left, right, bottom, top, -1, 1)
       /\ devicePixelRatio = ratio
       /\ cssSize = css
       /\ canvasWidth = wide * OrElse(ratio, 1)
       /\ canvasHeight = tall * OrElse(ratio, 1)
       /\ glCalls = <<>>
       /\ lastCall = Call("RenderWebGL", args, <<>>)
       /\ threw = FALSE

\* The Drawable module when it is loaded: an empty registry.
DrawableInit ==
    /\ allDrawables = <<>>
    /\ nextDrawable = 0
    /\ created = <<>>
    /\ destroyed = {}

\* ------------------------------------------------------- specification
\* Ids a caller may pass: every id handed out so far and one never handed
\* out.
CallerIds == 0..nextDrawable

\* new RenderWebGL(canvas) in a page that reports no pixel ratio and does
\* not style the canvas.
Init ==
    /\ DrawableInit
    /\ RenderWebGL(<<Omitted, Omitted, Omitted, Omitted, Omitted, Omitted>>,
                   Omitted, Omitted)

\* Any construction, in any page.
InitAny ==
    /\ DrawableInit
    /\ \E args \in CtorArgs, ratio \in PixelRatios, css \in CssSizes :
          RenderWebGL(args, ratio, css)

Next ==
    \/ \E color \in Colors : setBackgroundColor(color)
    \/ \E b \in StageSizes : setStageSize(b[1], b[2], b[3], b[4])
    \/ \E p \in PixelSizes : resize(p[1], p[2])
    \/ draw
    \/ (nextDrawable < MaxDrawables /\ createDrawable)
    \/ \E id \in CallerIds : destroyDrawable(id)
    \/ \E id \in CallerIds, properties \in PropertySets :
          updateDrawableProperties(id, properties)
    \/ getProjectionMatrix

Spec == Init /\ [][Next]_vars

NextStage ==
    \/ \E color \in Colors : setBackgroundColor(color)
    \/ \E b \in StageSizes : setStageSize(b[1], b[2], b[3], b[4])
    \/ \E p \in PixelSizes : resize(p[1], p[2])
    \/ draw
    \/ (nextDrawable < MaxStageDrawables /\ createDrawable)
    \/ \E id \in CallerIds : destroyDrawable(id)
    \/ \E id \in CallerIds, properties \in PropertySets :
          updateDrawableProperties(id, properties)
    \/ getProjectionMatrix

\* The renderer under any construction, pixel ratio and canvas styling.
SpecStage == InitAny /\ [][NextStage]_vars

\* Code outside the renderer disposes a registered Drawable directly:
\* Drawable.getDrawableByID(id).dispose(). The registry is reachable from
\* anywhere in the process, and the renderer's draw list is not told.
disposeDirectly(drawableID) ==
    /\ drawableID \in DOMAIN allDrawables
    /\ allDrawables' = dispose(allDrawables, drawableID)
    /\ glCalls' = <<>>
    /\ lastCall' = Call("Drawable.dispose", <<drawableID>>, <<>>)
    /\ threw' = FALSE
    /\ UNCHANGED <<drawables, nextDrawable, stageVars, backgroundColor,
                   surfaceVars, historyVars>>

NextRegistry ==
    \/ Next
    \/ \E id \in CallerIds : disposeDirectly(id)

\* The renderer together with other users of the Drawable registry.
SpecRegistry == Init /\ [][NextRegistry]_vars

\* ------------------------------------------------------------- properties
\* Reading a frame: the ids drawBufferInfo was issued for, in order, and the
\* shaders useProgram was called with, in order.
DrawnIds(calls) ==
    LET d == SelectSeq(calls, LAMBDA c : c.op = "drawBufferInfo")
    IN [k \in 1..Len(d) |-> d[k].args[1]]

BoundShaders(calls) ==
    LET b == SelectSeq(calls, LAMBDA c : c.op = "useProgram")
    IN [k \in 1..Len(b) |-> b[k].shader]

\* The shader variants of the listed drawables, in draw-list order.
ListedShaders == [i \in 1..Len(drawables) |-> allDrawables[drawables[i]].shader]

\* The positions of the draw list that start a maximal run of equal shaders.
RunStarts(shaders) ==
    SelectSeq([i \in 1..Len(shaders) |-> i],
              LAMBDA i : i = 1 \/ shaders[i] # shaders[i - 1])

\* Position (1-based) of the first call of the frame with this op for this
\* drawable id; 0 when there is none.
CallIndex(calls, op, id) ==
    IF \E k \in 1..Len(calls) : calls[k].op = op /\ calls[k].args = <<id>>
    THEN CHOOSE k \in 1..Len(calls) :
            /\ calls[k].op = op /\ calls[k].args = <<id>>
            /\ \A j \in 1..(k - 1) : ~(calls[j].op = op /\ calls[j].args = <<id>>)
    ELSE 0

IsCall(op) == lastCall.op = op

\* C1: after any sequence of createDrawable and destroyDrawable calls (and
\* the renderer's other calls) the draw list holds exactly the ids live in
\* the registry, each once.
C1_DrawListIsRegistry ==
    /\ \A i, j \in 1..Len(drawables) : i # j => drawables[i] # drawables[j]
    /\ Range(drawables) = DOMAIN allDrawables

\* C1 witness: some drawables are live, one was destroyed, and a drawable
\* was created after that destruction.
C1_Witness ==
    /\ Len(drawables) >= 2
    /\ \E d \in destroyed : \E i \in 1..Len(drawables) : drawables[i] > d
    /\ \E d \in destroyed : \E i \in 1..Len(drawables) : drawables[i] < d

\* C2: a draw() issues exactly one draw call per listed id, in draw-list
\* order, so a live drawable created before another is drawn before it.
C2_PaintOrder ==
    IsCall("draw") =>
        /\ ~threw
        /\ DrawnIds(glCalls) = drawables
        /\ \A a, b \in 1..Len(created) :
              (a < b /\ created[a] \in DOMAIN allDrawables
                     /\ created[b] \in DOMAIN allDrawables)
              => /\ CallIndex(glCalls, "drawBufferInfo", created[a]) > 0
                 /\ CallIndex(glCalls, "drawBufferInfo", created[a])
                      < CallIndex(glCalls, "drawBufferInfo", created[b])

\* C2 witness: a frame with three drawables whose shaders alternate, drawn
\* after an earlier drawable was destroyed.
C2_Witness ==
    /\ IsCall("draw")
    /\ destroyed # {}
    /\ Len(drawables) = 3
    /\ ListedShaders = <<"Y", "X", "Y">>
    /\ Len(DrawnIds(glCalls)) = 3

\* C3: in one draw() the shader binds are exactly the starts of the maximal
\* runs of equal shaders in the draw list: a bind (useProgram and
\* setBuffersAndAttributes) directly precedes the uniforms of the first
\* drawable and of each drawable whose shader differs from its predecessor's,
\* and of no other.
C3_BindsAreRunStarts ==
    IsCall("draw") =>
        LET starts == RunStarts(ListedShaders)
        IN /\ Len(BoundShaders(glCalls)) = Len(starts)
           /\ BoundShaders(glCalls) = [k \in 1..Len(starts) |-> ListedShaders[starts[k]]]
           /\ \A i \in 1..Len(drawables) :
                 LET u == CallIndex(glCalls, "setUniforms", drawables[i])
                 IN /\ u > 2
                    /\ (glCalls[u - 1].op = "setBuffersAndAttributes"
                         /\ glCalls[u - 2].op = "useProgram")
                       <=> (i \in Range(starts))

\* C3 witness: the list [X, X, Y, X] drawn with exactly three binds X, Y, X.
C3_Witness ==
    /\ IsCall("draw")
    /\ Len(drawables) = 4
    /\ ListedShaders = <<"X", "X", "Y", "X">>
    /\ BoundShaders(glCalls) = <<"X", "Y", "X">>

\* C4: destroyDrawable(id) with an id that is not in the draw list returns
\* false and changes neither the draw list nor the registry nor any
\* drawable.
C4_DestroyAbsentIsNoOp ==
    [][ (lastCall'.op = "destroyDrawable"
          /\ lastCall'.arg[1] \notin Range(drawables))
        => /\ lastCall'.ret = <<FALSE>>
           /\ ~threw'
           /\ UNCHANGED <<drawables, allDrawables, nextDrawable>> ]_vars

\* C4 witness: destroyDrawable returned false for an unlisted id while other
\* drawables are listed.
C4_Witness ==
    /\ IsCall("destroyDrawable")
    /\ lastCall.ret = <<FALSE>>
    /\ lastCall.arg[1] \notin Range(drawables)
    /\ Len(drawables) >= 2

\* C5: destroyDrawable(id) returns true exactly when id is in the draw list
\* at the call; then the drawable is disposed and id leaves the list, and a
\* destroyDrawable(id) that follows immediately returns false.
C5_DestroyReturnsListed ==
    [][ lastCall'.op = "destroyDrawable"
        => LET id == lastCall'.arg[1]
           IN /\ ~threw'
              /\ lastCall'.ret = <<id \in Range(drawables)>>
              /\ id \in Range(drawables)
                    => /\ getDrawableByID(allDrawables', id) = <<>>
                       /\ id \notin Range(drawables')
                       /\ Len(drawables') = Len(drawables) - 1
              /\ (lastCall.op = "destroyDrawable" /\ lastCall.arg = <<id>>
                    /\ lastCall.ret = <<TRUE>>)
                    => lastCall'.ret = <<FALSE>> ]_vars

\* C5 witness: destroyDrawable returned true for the first listed id of
\* several, which is now neither listed nor registered.
C5_Witness ==
    /\ IsCall("destroyDrawable")
    /\ lastCall.ret = <<TRUE>>
    /\ lastCall.arg[1] \notin Range(drawables)
    /\ lastCall.arg[1] \notin DOMAIN allDrawables
    /\ drawables # <<>>
    /\ \A i \in 1..Len(drawables) : lastCall.arg[1] < drawables[i]

\* C6: createDrawable() returns an id no earlier createDrawable() returned
\* (destroyed drawables included) and appends it at the end of the draw
\* list.
C6_CreateFreshAppended ==
    [][ lastCall'.op = "createDrawable"
        => LET id == lastCall'.ret[1]
           IN /\ id \notin Range(created)
              /\ drawables' = Append(drawables, id) ]_vars

\* C6 witness: createDrawable returned after another drawable was destroyed
\* and while others are listed.
C6_Witness ==
    /\ IsCall("createDrawable")
    /\ destroyed # {}
    /\ Len(drawables) >= 2
    /\ drawables[Len(drawables)] = lastCall.ret[1]

\* C7: an id for which destroyDrawable returned true never resolves through
\* the registry again.
C7_DestroyedNeverResolves ==
    \A id \in destroyed : getDrawableByID(allDrawables, id) = <<>>

\* C7 witness: after a destruction and a later creation, a caller updates
\* the destroyed id.
C7_Witness ==
    /\ IsCall("updateDrawableProperties")
    /\ lastCall.arg[1] \in destroyed
    /\ \E i \in 1..Len(drawables) : drawables[i] > lastCall.arg[1]

\* C8: draw() skips a listed id that does not resolve in the registry: it
\* does not fail, issues nothing for that id, and draws every other listed
\* drawable in list order.
C8_DrawSkipsUnresolved ==
    IsCall("draw") =>
        /\ ~threw
        /\ DrawnIds(glCalls)
             = SelectSeq(drawables, LAMBDA id : id \in DOMAIN allDrawables)

\* C9: updateDrawableProperties with an id that does not resolve raises no
\* error and changes neither the draw list nor the registry nor any
\* drawable.
C9_UpdateUnresolvedIsNoOp ==
    [][ (lastCall'.op = "updateDrawableProperties"
          /\ getDrawableByID(allDrawables, lastCall'.arg[1]) = <<>>)
        => /\ ~threw'
           /\ UNCHANGED <<drawables, allDrawables, nextDrawable>> ]_vars

\* C9 witness: updateDrawableProperties returned for an id that was never
\* created, with drawables registered.
C9_Witness ==
    /\ IsCall("updateDrawableProperties")
    /\ lastCall.arg[1] \notin Range(created)
    /\ ~threw
    /\ Len(drawables) >= 2

\* C10: setStageSize marks every drawable registered at that moment dirty,
\* clean and dirty ones alike, and registers or unregisters none.
C10_StageSizeDirtiesAll ==
    [][ lastCall'.op = "setStageSize"
        => /\ DOMAIN allDrawables' = DOMAIN allDrawables
           /\ \A id \in DOMAIN allDrawables : allDrawables'[id].dirty ]_vars

\* C10 witness: setStageSize returned with several drawables registered, all
\* of them dirty.
C10_Witness ==
    /\ IsCall("setStageSize")
    /\ Cardinality(DOMAIN allDrawables) >= 3
    /\ \A id \in DOMAIN allDrawables : allDrawables[id].dirty

\* scale * x + offset = target, for fractions scale and offset with non-zero
\* denominators: where one axis of a projection sends the coordinate x.
MapsTo(scale, offset, x, target) ==
    scale[1] * x * offset[2] + offset[1] * scale[2]
        = target * scale[2] * offset[2]

\* C11: the stored projection is always the orthographic projection (near
\* -1, far 1) of the stored stage bounds: it is what ortho gives for them,
\* and for a stage of non-zero size it sends the left, right, bottom and top
\* edges and the near and far planes to -1 and 1; getProjectionMatrix returns
\* it and changes nothing.
C11_ProjectionIsOrtho ==
    /\ [](projection = ortho(xLeft, xRight, yBottom, yTop, -1, 1))
    /\ []((xLeft # xRight /\ yBottom # yTop)
            => /\ MapsTo(projection.m0, projection.m12, xLeft, -1)
               /\ MapsTo(projection.m0, projection.m12, xRight, 1)
               /\ MapsTo(projection.m5, projection.m13, yBottom, -1)
               /\ MapsTo(projection.m5, projection.m13, yTop, 1)
               /\ MapsTo(projection.m10, projection.m14, 1, -1)
               /\ MapsTo(projection.m10, projection.m14, -1, 1))
    /\ [](IsCall("getProjectionMatrix") => lastCall.ret = <<projection>>)
    /\ [][ lastCall'.op = "getProjectionMatrix"
           => UNCHANGED <<drawables, registryVars, stageVars, backgroundColor,
                          surfaceVars>> ]_vars

\* C11 witness: getProjectionMatrix returned the projection of the stage
\* 0..480 by 0..360, set by setStageSize on a renderer constructed with other
\* bounds.
C11_Witness ==
    /\ IsCall("getProjectionMatrix")
    /\ <<xLeft, xRight, yBottom, yTop>> = <<0, 480, 0, 360>>
    /\ lastCall.ret[1].m0 = <<1, 240>>
    /\ lastCall.ret[1].m12 = <<-1, 1>>
    /\ lastCall.ret[1].m5 = <<1, 180>>

\* An optional argument's value, or the default when it is left out.
ValueOr(a, default) == IF a = Omitted THEN default ELSE a[1]

\* C12: the constructor stores every stage bound and pixel dimension the
\* caller supplies as supplied (the pixel dimensions scaled by the pixel
\* ratio, as resize does), 0 included, and uses -240, 240, -180, 180 and the
\* absolute differences of the resulting bounds only for arguments left out.
C12_CtorStoresSupplied ==
    IsCall("RenderWebGL") =>
        LET a == lastCall.arg
            ratio == ValueOr(devicePixelRatio, 1)
        IN /\ xLeft = ValueOr(a[1], -240)
           /\ xRight = ValueOr(a[2], 240)
           /\ yBottom = ValueOr(a[3], -180)
           /\ yTop = ValueOr(a[4], 180)
           /\ canvasWidth = ValueOr(a[5], Abs(xRight - xLeft)) * ratio
           /\ canvasHeight = ValueOr(a[6], Abs(yTop - yBottom)) * ratio

\* C13: resize(widthPixels, heightPixels) sets the canvas width and height to
\* the requested sizes times the device pixel ratio, taken as 1 when the page
\* reports none.
C13_ResizeScalesByRatio ==
    IsCall("resize") =>
        /\ devicePixelRatio = Omitted
             => /\ canvasWidth = lastCall.arg[1]
                /\ canvasHeight = lastCall.arg[2]
        /\ devicePixelRatio # Omitted
             => /\ canvasWidth = lastCall.arg[1] * devicePixelRatio[1]
                /\ canvasHeight = lastCall.arg[2] * devicePixelRatio[1]

\* C13 witness: resize(480, 360) at pixel ratio 2 gave a 960 by 720 canvas.
C13_Witness ==
    /\ IsCall("resize")
    /\ lastCall.arg = <<480, 360>>
    /\ devicePixelRatio = Given(2)
    /\ canvasWidth = 960
    /\ canvasHeight = 720

\* C14: every draw() sets the viewport to the canvas's current backing-store
\* size, the width and height the latest resize established with the pixel
\* ratio applied.
C14_ViewportIsBackingStore ==
    IsCall("draw") =>
        /\ glCalls[1].op = "viewport"
        /\ glCalls[1].args = <<0, 0, canvasWidth, canvasHeight>>

\* A fraction that is a finite number: its denominator is not zero.
Finite(f) == f[2] # 0

\* C15: setStageSize with bounds of zero width or zero height raises no
\* error and leaves a well-defined, non-singular projection: every entry is
\* finite and neither scale is zero, the divisors being clamped away from
\* zero.
C15_DegenerateBoundsClamped ==
    (IsCall("setStageSize") /\ (xLeft = xRight \/ yBottom = yTop)) =>
        /\ ~threw
        /\ \A k \in {"m0", "m5", "m10", "m12", "m13", "m14"} :
              Finite(projection[k])
        /\ projection.m0[1] # 0
        /\ projection.m5[1] # 0

\* C16: a drawable is Clean or Dirty. A successful updateDrawableProperties
\* on it and every setStageSize leave it Dirty, and nothing else makes a
\* Clean drawable Dirty; only a draw() that applies its uniforms (getUniforms)
\* makes a Dirty drawable Clean. In a draw() every listed drawable's uniforms
\* are applied before its draw call, and every listed drawable is Clean when
\* draw() returns.
C16_CleanDirtyMachine ==
    /\ [][ \A id \in DOMAIN allDrawables \cap DOMAIN allDrawables' :
             /\ (allDrawables[id].dirty /\ ~allDrawables'[id].dirty)
                   => /\ lastCall'.op = "draw"
                      /\ CallIndex(glCalls', "setUniforms", id) > 0
             /\ (~allDrawables[id].dirty /\ allDrawables'[id].dirty)
                   => \/ lastCall'.op = "setStageSize"
                      \/ /\ lastCall'.op = "updateDrawableProperties"
                         /\ lastCall'.arg = <<id>>
             /\ lastCall'.op = "setStageSize" => allDrawables'[id].dirty
             /\ (lastCall'.op = "updateDrawableProperties"
                  /\ lastCall'.arg = <<id>>) => allDrawables'[id].dirty ]_vars
    /\ [](IsCall("draw") =>
            \A i \in 1..Len(drawables) :
                LET id == drawables[i]
                    u == CallIndex(glCalls, "setUniforms", id)
                    d == CallIndex(glCalls, "drawBufferInfo", id)
                IN /\ 0 < u
                   /\ u < d
                   /\ ~allDrawables[id].dirty)

\* C16 witness: draw() returned with three listed drawables, one of them
\* updated to another shader earlier, all Clean.
C16_Witness ==
    /\ IsCall("draw")
    /\ Len(drawables) = 3
    /\ ListedShaders = <<"X", "Y", "Y">>
    /\ \A i \in 1..3 : ~allDrawables[drawables[i]].dirty
    /\ \A i \in 1..3 : CallIndex(glCalls, "setUniforms", drawables[i]) > 0

\* C17: the background colour is white after construction and afterwards
\* the colour of the latest setBackgroundColor call; every draw() sets it as
\* the clear colour and clears once, before the first call made for any
\* drawable.
C17_ClearsWithBackground ==
    /\ [](IsCall("RenderWebGL") => backgroundColor = <<1, 1, 1, 1>>)
    /\ [][ IF lastCall'.op = "setBackgroundColor"
           THEN backgroundColor' = lastCall'.arg
           ELSE backgroundColor' = backgroundColor ]_vars
    /\ [](IsCall("draw") =>
            \E c \in 1..Len(glCalls) :
                /\ glCalls[c].op = "clearColor"
                /\ glCalls[c].args = backgroundColor
                /\ glCalls[c + 1].op = "clear"
                /\ \A k \in 1..Len(glCalls) :
                      /\ (glCalls[k].op = "clearColor" => k = c)
                      /\ (glCalls[k].op = "clear" => k = c + 1)
                      /\ (glCalls[k].op \in {"useProgram", "setBuffersAndAttributes",
                                              "setUniforms", "setUniforms:u_fudge",
                                              "drawBufferInfo"} => k > c + 1))

\* C17 witness: a draw() of two drawables cleared with the black set by
\* setBackgroundColor.
C17_Witness ==
    /\ IsCall("draw")
    /\ backgroundColor = <<0, 0, 0, 1>>
    /\ Len(DrawnIds(glCalls)) = 2
    /\ \E c \in 1..Len(glCalls) :
          glCalls[c].op = "clearColor" /\ glCalls[c].args = <<0, 0, 0, 1>>

\* C18: a destroyDrawable(id) that returns true leaves the draw list as it
\* was with id taken out: the other ids stay, in the same relative order.
C18_DestroyKeepsOrder ==
    [][ (lastCall'.op = "destroyDrawable" /\ lastCall'.ret = <<TRUE>>)
        => drawables' = SelectSeq(drawables, LAMBDA x : x # lastCall'.arg[1]) ]_vars

\* C18 witness: destroyDrawable returned true for an id that was listed
\* between two others, which are still listed.
C18_Witness ==
    /\ IsCall("destroyDrawable")
    /\ lastCall.ret = <<TRUE>>
    /\ Len(drawables) >= 3
    /\ drawables[1] < lastCall.arg[1]
    /\ lastCall.arg[1] < drawables[2]

\* C19: draw() changes neither the draw list nor which ids are registered
\* nor the stage bounds, the projection, the background colour or the canvas
\* size, and a draw() that directly follows a draw() issues the same calls.
C19_DrawChangesNothing ==
    [][ lastCall'.op = "draw"
        => /\ UNCHANGED <<drawables, stageVars, backgroundColor, canvasWidth,
                          canvasHeight>>
           /\ DOMAIN allDrawables' = DOMAIN allDrawables
           /\ lastCall.op = "draw"
                 => /\ DrawnIds(glCalls') = DrawnIds(glCalls)
                    /\ glCalls' = glCalls ]_vars

\* C19 witness: draw() returned with three drawables of mixed shaders
\* listed, a stage other than the default and a black background.
C19_Witness ==
    /\ IsCall("draw")
    /\ DrawnIds(glCalls) = drawables
    /\ Len(drawables) = 3
    /\ ListedShaders = <<"Y", "X", "X">>
    /\ <<xLeft, xRight, yBottom, yTop>> = <<0, 480, 0, 360>>
    /\ backgroundColor = <<0, 0, 0, 1>>

====
